---- MODULE Spec2Model ----
(***************************************************************************)
(* Neutral IPC server (src/main.rs): the 12-byte header codec, the         *)
(* per-connection handler handle_client, the rendering call                *)
(* parse_template and the accept loop of main.                             *)
(*                                                                         *)
(* Numbers.  TLC's integers are 32-bit signed, so a u32 is kept as two     *)
(* 16-bit halves [hi, lo] (value hi * 2^16 + lo) and a 64-bit usize as     *)
(* [top, low] (value top * 2^32 + low, low a u32).  Both keep their exact  *)
(* width: `x as u32` drops top.                                            *)
(*                                                                         *)
(* Bytes.  A byte is 0..255.  A byte string is a sequence whose elements   *)
(* are bytes or the token Run4G, which stands for a run of 2^32 bytes 'x'  *)
(* (the only way a string of 4 GiB or more appears in a state).            *)
(***************************************************************************)
EXTENDS Integers, Sequences, FiniteSets, TLC

\* ---------------------------------------------------------------- bounds
\* connections the clients open in the concurrent scenario
MaxConn == 2
\* bytes a client sends beyond the request it framed
MaxExtra == 1
\* where a client may split the header it sends in two segments
HeaderSplit == 6
\* bytes after the twelfth in a buffer given to Header::from_bytes
MaxTail == 1

\* ------------------------------------------------------ program constants
HEADER_SIZE == 12
CTRL_PARSE_TEMPLATE == 10
CTRL_STATUS_OK == 0
CONTENT_JSON == 10
CONTENT_PATH == 20
CONTENT_TEXT == 30

\* --------------------------------------------------------------- integers
\* u32 from a small natural (n < 2^16)
U32(n) == [hi |-> 0, lo |-> n]

\* u32::from_be_bytes([b1, b2, b3, b4])
u32_from_be_bytes(b) ==
  [hi |-> b[1] * 256 + b[2], lo |-> b[3] * 256 + b[4]]

\* variant of u32_to_be_bytes: least significant byte first
u32_to_le_bytes(u) ==
  << u.lo % 256, u.lo \div 256, u.hi % 256, u.hi \div 256 >>

\* u32::to_be_bytes
u32_to_be_bytes(u) ==
  << u.hi \div 256, u.hi % 256, u.lo \div 256, u.lo % 256 >>

\* `u as usize` (64-bit target): zero extension
as_usize(u) == [top |-> 0, low |-> u]

\* `n as u32`: keeps the low 32 bits
as_u32(n) == n.low

\* ------------------------------------------------------------ byte strings
Run4G == 256

RECURSIVE CountRuns(_)
CountRuns(s) ==
  IF s = << >> THEN 0
  ELSE (IF Head(s) = Run4G THEN 1 ELSE 0) + CountRuns(Tail(s))

\* String::len / Vec::len, in bytes, as a usize
len(s) == [top |-> CountRuns(s), low |-> U32(Len(s) - CountRuns(s))]

\* first n elements of s
Take(s, n) == SubSeq(s, 1, n)
\* s without its first n elements
Drop(s, n) == SubSeq(s, n + 1, Len(s))
IsPrefix(p, s) == Len(p) <= Len(s) /\ Take(s, Len(p)) = p

\* ------------------------------------------------------------ header codec
Header(r, c, f1, l1, f2, l2) ==
  [reserved |-> r, control |-> c, content_format_1 |-> f1,
   content_length_1 |-> l1, content_format_2 |-> f2, content_length_2 |-> l2]

\* variant of from_bytes: a buffer of any length but HEADER_SIZE is refused
from_bytes_exact(bytes) ==
  IF Len(bytes) # HEADER_SIZE THEN << >>
  ELSE << Header(bytes[1], bytes[2], bytes[3],
                 u32_from_be_bytes(SubSeq(bytes, 4, 7)),
                 bytes[8],
                 u32_from_be_bytes(SubSeq(bytes, 9, 12))) >>

\* Header::from_bytes: Option<Header> as a sequence of 0 or 1 headers
from_bytes(bytes) ==
  IF Len(bytes) < HEADER_SIZE THEN << >>
  ELSE << Header(bytes[1], bytes[2], bytes[3],
                 u32_from_be_bytes(SubSeq(bytes, 4, 7)),
                 bytes[8],
                 u32_from_be_bytes(SubSeq(bytes, 9, 12))) >>

\* Header::to_bytes
to_bytes(h) ==
  << h.reserved, h.control, h.content_format_1 >>
    \o u32_to_be_bytes(h.content_length_1)
    \o << h.content_format_2 >>
    \o u32_to_be_bytes(h.content_length_2)

\* ------------------------------------------------------------------ UTF-8
Cont(b) == b >= 128 /\ b <= 191

\* core::str::from_utf8's acceptance of a byte vector (RFC 3629 well-formed)
RECURSIVE utf8_valid(_)
utf8_valid(v) ==
  IF v = << >> THEN TRUE
  ELSE LET b == v[1]
           n == Len(v)
       IN  IF b <= 127 THEN utf8_valid(Drop(v, 1))
           ELSE IF b >= 194 /\ b <= 223
             THEN n >= 2 /\ Cont(v[2]) /\ utf8_valid(Drop(v, 2))
           ELSE IF b >= 224 /\ b <= 239
             THEN /\ n >= 3
                  /\ Cont(v[2]) /\ Cont(v[3])
                  /\ (b = 224 => v[2] >= 160)
                  /\ (b = 237 => v[2] <= 159)
                  /\ utf8_valid(Drop(v, 3))
           ELSE IF b >= 240 /\ b <= 244
             THEN /\ n >= 4
                  /\ Cont(v[2]) /\ Cont(v[3]) /\ Cont(v[4])
                  /\ (b = 240 => v[2] >= 144)
                  /\ (b = 244 => v[2] <= 143)
                  /\ utf8_valid(Drop(v, 4))
           ELSE FALSE

\* String::from_utf8: Result<String, _> as << >> (Err) or << s >> (Ok)
from_utf8(v) == IF utf8_valid(v) THEN << v >> ELSE << >>

\* ------------------------------------------------- rendering (neutralts)
\* The engine is an external crate.  It is modelled by a small stand-in that
\* keeps what the handler depends on: which calls return Err (and are
\* unwrapped), and that the rendered text and the status document are
\* strings computed from the schema and the template source.

\* serde_json::from_str::<Value>(schema).is_ok(), for texts over the bytes
\* the clients use here ('{' '}' 'a' '*' 0xC3 0xA9 0xFF): "{}" is the only
\* JSON document among them
json_valid(schema) == schema = << 123, 125 >>

\* Template::merge_schema_str(schema): Err when the schema is not JSON
merge_schema_str(schema) == json_valid(schema)

\* the file system seen by the server: one readable file, "a"
\* fs::read_to_string(path): << >> (Err) or << contents >>
read_to_string(path) ==
  IF path = << 97 >> THEN << << 97, 97 >> >> ELSE << >>

\* Template::set_src_path(path): Err when the file cannot be read
set_src_path(path) == read_to_string(path)

\* Template::render(): the stand-in copies the source and expands each '*'
\* into 2^32 bytes (a template may render to more than it was given)
RECURSIVE render(_)
render(src) ==
  IF src = << >> THEN << >>
  ELSE (IF Head(src) = 42 THEN << Run4G >> ELSE << Head(src) >>)
         \o render(Tail(src))

\* Template::has_error(): the stand-in reports an error for a source
\* holding '{'
has_error(src) == \E i \in 1..Len(src) : src[i] = 123

\* json!({has_error, status_code, status_text, status_param}).to_string(),
\* shortened to three bytes: '{', '1' or '0', '}'
status_json(src) == << 123, IF has_error(src) THEN 49 ELSE 48, 125 >>

\* variant of result_status: report rendering errors in the control byte
result_status_ko(src) == IF has_error(src) THEN 1 ELSE CTRL_STATUS_OK

\* ParseTemplateResult.status as parse_template sets it
result_status(src) == CTRL_STATUS_OK

\* variant of parse_template: the template source is always taken inline
parse_template_inline(schema, tpl, tpl_type) ==
  IF ~merge_schema_str(schema) THEN << >>
  ELSE << [json |-> status_json(tpl), text |-> render(tpl),
           status |-> result_status(tpl)] >>

\* parse_template: << >> when an unwrap panics, else << ParseTemplateResult >>
\* (Template::new() builds the engine's own default schema and returns Ok)
parse_template(schema, tpl, tpl_type) ==
  IF ~merge_schema_str(schema) THEN << >>
  ELSE IF tpl_type = CONTENT_PATH /\ set_src_path(tpl) = << >> THEN << >>
  ELSE LET src == IF tpl_type = CONTENT_PATH THEN set_src_path(tpl)[1] ELSE tpl
       IN  << [json |-> status_json(src), text |-> render(src),
               status |-> result_status(src)] >>

\* the response header handle_client builds from the result
response_header(result) ==
  Header(0, result.status, CONTENT_JSON, as_u32(len(result.json)),
         CONTENT_TEXT, as_u32(len(result.text)))

\* ---------------------------------------------------------------- clients
Conns == 1..MaxConn

\* content blocks the clients send: "", "{}", "a", "e-acute", 0xFF, "*"
Texts == { << >>, << 123, 125 >>, << 97 >>, << 195, 169 >>, << 255 >>, << 42 >> }

RECURSIVE Fill(_)
Fill(n) == IF n = 0 THEN << >> ELSE << 97 >> \o Fill(n - 1)
Extras == { Fill(n) : n \in 0..MaxExtra }

Request(h, b1, b2, e) == [header |-> h, block1 |-> b1, block2 |-> b2, extra |-> e]

\* a request framed as the protocol says: the declared lengths are those of
\* the blocks
Framed(r, c, f1, f2, b1, b2, e) ==
  Request(Header(r, c, f1, U32(Len(b1)), f2, U32(Len(b2))), b1, b2, e)

\* requests of the single-client scenario
RichRequests ==
  { Framed(r, c, f1, f2, b1, b2, e) :
      r \in {0, 1}, c \in {CTRL_PARSE_TEMPLATE, 99},
      f1 \in {CONTENT_JSON, CONTENT_TEXT},
      f2 \in {CONTENT_PATH, CONTENT_TEXT, 40},
      b1 \in Texts, b2 \in Texts, e \in Extras }
  \cup
  \* declared lengths of 65536 and more: never delivered in full
  { Request(Header(0, CTRL_PARSE_TEMPLATE, CONTENT_JSON, l1, CONTENT_TEXT, l2),
            << 123, 125 >>, << 97 >>, << >>) :
      l1 \in { U32(2), [hi |-> 1, lo |-> 2] },
      l2 \in { [hi |-> 1, lo |-> 1], [hi |-> 258, lo |-> 1] } }

\* requests of the concurrent scenario
ConcRequests ==
  { Framed(0, CTRL_PARSE_TEMPLATE, CONTENT_JSON, CONTENT_TEXT, << 123, 125 >>, << 97 >>, << >>),
    Framed(0, CTRL_PARSE_TEMPLATE, CONTENT_JSON, CONTENT_TEXT, << 123, 125 >>, << 195, 169 >>, << >>),
    Framed(0, CTRL_PARSE_TEMPLATE, CONTENT_JSON, CONTENT_PATH, << 123, 125 >>, << 97 >>, << >>),
    Framed(0, CTRL_PARSE_TEMPLATE, CONTENT_JSON, CONTENT_TEXT, << 255 >>, << 97 >>, << >>),
    Framed(0, CTRL_PARSE_TEMPLATE, CONTENT_JSON, CONTENT_TEXT, << 123, 125 >>, << 255 >>, << >>) }

\* the bytes the client puts on the wire, in order
Wire(q) == to_bytes(q.header) \o q.block1 \o q.block2 \o q.extra

\* ------------------------------------------------------------------ state
VARIABLES
  listening,        \* main: the accept loop is running
  accepted,         \* main: connections accepted so far (ids 1..accepted)
  lastAccept,       \* main: what the last accept returned: "none", "ok", "err"
  req,              \* client c: the request it sends
  sent,             \* client c: bytes of Wire(req[c]) delivered to the server
  peer,             \* client c: "open", "shut" (sent FIN, still reads), "reset"
  pc,               \* task c: where handle_client stands
  nread,            \* task c: bytes taken from the socket
  header,           \* task c: the decoded request header (0 or 1)
  content_1_buffer, \* task c
  content_2_buffer, \* task c
  calls,            \* task c: arguments of each parse_template call
  result,           \* task c: the ParseTemplateResult (0 or 1)
  out,              \* task c: bytes written to the socket, in order
  err,              \* task c: the error that ended the task, "" for none
  bornAfter,        \* connection c: the connections already over at its accept
  codec_pc,         \* codec alone: "off", or the call sequence so far
  codec_bytes,      \* codec alone: the buffer decoded, or the last one encoded
  codec_header,     \* codec alone: the header encoded, or the last decode's
                    \* Option<Header> (0 or 1)
  given_bytes,      \* codec alone: the buffer the sequence began with
  given_header      \* codec alone: the header the sequence began with (0 or 1)

mainVars == << listening, accepted, lastAccept >>
peerVars == << req, sent, peer >>
taskVars == << pc, nread, header, content_1_buffer, content_2_buffer, calls,
               result, out, err >>
codecVars == << codec_pc, codec_bytes, codec_header, given_bytes,
               given_header >>
vars == << listening, accepted, lastAccept, req, sent, peer, pc, nread, header,
           content_1_buffer, content_2_buffer, calls, result, out, err,
           bornAfter, codec_pc, codec_bytes, codec_header, given_bytes,
           given_header >>

NoRequest == Request(Header(0, 0, 0, U32(0), 0, U32(0)), << >>, << >>, << >>)

Over == { "Closed", "Aborted", "Panicked" }
Terminated(c) == pc[c] \in Over

\* the server before its first accept
ServerInit ==
  /\ listening = TRUE
  /\ accepted = 0
  /\ lastAccept = "none"
  /\ req = [c \in Conns |-> NoRequest]
  /\ sent = [c \in Conns |-> 0]
  /\ peer = [c \in Conns |-> "open"]
  /\ pc = [c \in Conns |-> "Idle"]
  /\ nread = [c \in Conns |-> 0]
  /\ header = [c \in Conns |-> << >>]
  /\ content_1_buffer = [c \in Conns |-> << >>]
  /\ content_2_buffer = [c \in Conns |-> << >>]
  /\ calls = [c \in Conns |-> << >>]
  /\ result = [c \in Conns |-> << >>]
  /\ out = [c \in Conns |-> << >>]
  /\ err = [c \in Conns |-> ""]
  /\ bornAfter = [c \in Conns |-> {}]

Init ==
  /\ ServerInit
  /\ codec_pc = "off"
  /\ codec_bytes = << >>
  /\ codec_header = << >>
  /\ given_bytes = << >>
  /\ given_header = << >>

\* ------------------------------------------------------------------- main
\* variant of after_accept_error: the loop ends at the first accept error
after_accept_error_stop(l) == FALSE

\* the accept loop goes on after an accept error (main.rs:158)
after_accept_error(l) == l

\* variant of stream_of: one stream shared by all tasks
stream_shared(c) == 1

\* the task a stream is moved into by `async move` owns that stream alone
stream_of(c) == c

\* variant of at_accept: the loop awaits handle_client instead of spawning it
at_accept_after_handler == \A c \in Conns : pc[c] \in Over \cup { "Idle" }

\* tokio::spawn returns at once, so the loop is at listener.accept() whatever
\* the tasks spawned so far are doing
at_accept == TRUE

\* listener.accept() returns Ok: the stream is moved into a new task, which
\* starts at the header read; the loop goes back to accept at once
Accept(pool, limit) ==
  /\ listening
  /\ at_accept
  /\ accepted < limit
  /\ \E q \in pool :
       LET c == accepted + 1 IN
       /\ accepted' = c
       /\ lastAccept' = "ok"
       /\ req' = [req EXCEPT ![c] = q]
       /\ pc' = [pc EXCEPT ![c] = "AwaitHeader"]
       /\ bornAfter' = [bornAfter EXCEPT ![c] = { d \in Conns : Terminated(d) }]
  /\ UNCHANGED << listening, sent, peer, nread, header,
                  content_1_buffer, content_2_buffer, calls, result, out, err,
                  codecVars >>

\* listener.accept() returns Err: logged, the loop continues
AcceptFail ==
  /\ listening
  /\ lastAccept' = "err"
  /\ listening' = after_accept_error(listening)
  /\ UNCHANGED << accepted, peerVars, taskVars, bornAfter, codecVars >>

\* ----------------------------------------------------------------- client
Live(c) == pc[c] \notin (Over \cup {"Idle"})

\* where a segment may end: inside the header, at its end, and after every
\* byte that follows it
SegmentEnds(q) ==
  { HeaderSplit, HEADER_SIZE } \cup (HEADER_SIZE + 1)..Len(Wire(q))

\* the request is sent as one segment
WholeRequest(q) == { Len(Wire(q)) }

\* the client delivers the next segment of its request, up to one of ends
PeerSend(c, ends) ==
  /\ Live(c)
  /\ peer[c] = "open"
  /\ \E k \in ends :
       /\ k > sent[c]
       /\ k <= Len(Wire(req[c]))
       /\ sent' = [sent EXCEPT ![c] = k]
  /\ UNCHANGED << mainVars, req, peer, taskVars, bornAfter, codecVars >>

\* the client closes its sending side; it still reads
PeerShutdown(c) ==
  /\ Live(c)
  /\ peer[c] = "open"
  /\ peer' = [peer EXCEPT ![c] = "shut"]
  /\ UNCHANGED << mainVars, req, sent, taskVars, bornAfter, codecVars >>

\* the client closes or resets the connection
PeerReset(c) ==
  /\ Live(c)
  /\ peer[c] # "reset"
  /\ peer' = [peer EXCEPT ![c] = "reset"]
  /\ UNCHANGED << mainVars, req, sent, taskVars, bornAfter, codecVars >>

\* ------------------------------------------------------------- socket I/O
Avail(c) == sent[c] - nread[c]

\* n (a usize) bytes are there to be read
HasBytes(c, n) == n.top = 0 /\ n.low.hi = 0 /\ n.low.lo <= Avail(c)

\* variant of read_exact: a read that gives up when the bytes are not there
read_timeout(c, n) ==
  IF HasBytes(c, n) THEN {"ok"} ELSE {"err"}

\* variant of read_exact: a single read, which returns what there is at the
\* end of the stream
read_once(c, n) ==
  IF HasBytes(c, n) \/ peer[c] # "open" THEN {"ok"} ELSE {}

\* variant of read_exact: a buffer of length 0 also waits for the socket to
\* have a byte or to be closed
read_exact_polls_empty(c, n) ==
  IF n = as_usize(U32(0))
    THEN IF Avail(c) > 0 THEN {"ok"}
         ELSE IF peer[c] # "open" THEN {"err"} ELSE {}
    ELSE (IF HasBytes(c, n) THEN {"ok"} ELSE {})
           \cup (IF peer[c] = "reset" \/ (peer[c] = "shut" /\ ~HasBytes(c, n))
                 THEN {"err"} ELSE {})

\* what stream.read_exact(buf) of n bytes can return now: "ok", "err", or
\* nothing while it waits.  A buffer of length 0 is filled without a read;
\* after a reset the read may fail even with bytes delivered.
read_exact(c, n) ==
  (IF HasBytes(c, n) THEN {"ok"} ELSE {})
    \cup (IF n # as_usize(U32(0))
             /\ (peer[c] = "reset" \/ (peer[c] = "shut" /\ ~HasBytes(c, n)))
          THEN {"err"} ELSE {})

\* a zero-initialised buffer of n bytes ([0; HEADER_SIZE], vec![0; n]) after
\* the delivered bytes that follow the ones already taken are copied into it
Next_bytes(c, n) ==
  [i \in 1..n |-> IF nread[c] + i <= sent[c] THEN Wire(req[c])[nread[c] + i] ELSE 0]

\* the task returns Err(e): logged by the spawned closure, the stream dropped
Abort(c, e) ==
  /\ pc' = [pc EXCEPT ![c] = "Aborted"]
  /\ err' = [err EXCEPT ![c] = e]

\* ---------------------------------------------------------- handle_client
\* variant of validate: no default arm, every control code is served
validate_any_control(h) ==
  IF h.content_format_1 # CONTENT_JSON
    THEN "Invalid content_format_1. Expected JSON."
  ELSE IF h.content_format_2 # CONTENT_TEXT /\ h.content_format_2 # CONTENT_PATH
    THEN "Invalid content_format_2. Expected TEXT or PATH."
  ELSE ""

\* variant of validate: content_format_2 is not checked
validate_no_format_2(h) ==
  IF h.control = CTRL_PARSE_TEMPLATE
    THEN IF h.content_format_1 # CONTENT_JSON
           THEN "Invalid content_format_1. Expected JSON."
         ELSE ""
    ELSE "Unsupported control code"

\* variant of validate: a reserved byte other than 0 is refused
validate_reserved(h) ==
  IF h.reserved # 0 THEN "Invalid header format"
  ELSE IF h.control = CTRL_PARSE_TEMPLATE
    THEN IF h.content_format_1 # CONTENT_JSON
           THEN "Invalid content_format_1. Expected JSON."
         ELSE IF h.content_format_2 # CONTENT_TEXT /\ h.content_format_2 # CONTENT_PATH
           THEN "Invalid content_format_2. Expected TEXT or PATH."
         ELSE ""
    ELSE "Unsupported control code"

\* variant of validate: the format tags are checked before the control code
validate_formats_first(h) ==
  IF h.content_format_1 # CONTENT_JSON
    THEN "Invalid content_format_1. Expected JSON."
  ELSE IF h.content_format_2 # CONTENT_TEXT /\ h.content_format_2 # CONTENT_PATH
    THEN "Invalid content_format_2. Expected TEXT or PATH."
  ELSE IF h.control # CTRL_PARSE_TEMPLATE THEN "Unsupported control code"
  ELSE ""

\* the checks made on a decoded header, in the order of the code: "" when
\* the request is accepted, else the error returned
validate(h) ==
  IF h.control = CTRL_PARSE_TEMPLATE
    THEN IF h.content_format_1 # CONTENT_JSON
           THEN "Invalid content_format_1. Expected JSON."
         ELSE IF h.content_format_2 # CONTENT_TEXT /\ h.content_format_2 # CONTENT_PATH
           THEN "Invalid content_format_2. Expected TEXT or PATH."
         ELSE ""
    ELSE "Unsupported control code"

\* variant of decode: a lossy conversion, which never fails
decode_lossy(b1, b2) == ""

\* the two String::from_utf8 calls, in the order of the code: "" when both
\* buffers are UTF-8, else the error returned
decode(b1, b2) ==
  IF from_utf8(b1) = << >> THEN "Failed to parse json content"
  ELSE IF from_utf8(b2) = << >> THEN "Failed to parse text content"
  ELSE ""

\* variant of after_response: keep-alive, the handler loops to the next header
after_response_keep_alive(c) == "AwaitHeader"

\* where the task goes after the response is written: Ok(()) is returned
after_response(c) == "Closed"

\* variant of response_parts: the text is written before the JSON body
response_parts_text_first(r) == << to_bytes(response_header(r)), r.text, r.json >>

\* the three buffers written, in the order of the writes
response_parts(r) == << to_bytes(response_header(r)), r.json, r.text >>

\* bytes a failed read_exact of n bytes has taken from the socket
Taken(c, n) == IF HasBytes(c, n) THEN n.low.lo ELSE Avail(c)

\* stream.read_exact(&mut header_bytes), Header::from_bytes and the checks
\* on control and formats (main.rs:164-176, 204-210)
ReadHeader(c) ==
  /\ pc[c] = "AwaitHeader"
  /\ \E o \in read_exact(stream_of(c), as_usize(U32(HEADER_SIZE))) :
       IF o = "err"
         THEN /\ nread' = [nread EXCEPT ![c] = @ + Taken(c, as_usize(U32(HEADER_SIZE)))]
              /\ Abort(c, "io error")
              /\ UNCHANGED header
         ELSE LET h == from_bytes(Next_bytes(stream_of(c), HEADER_SIZE)) IN
              /\ nread' = [nread EXCEPT ![c] = @ + HEADER_SIZE]
              /\ header' = [header EXCEPT ![c] = h]
              /\ IF h = << >> THEN Abort(c, "Invalid header format")
                 ELSE IF validate(h[1]) # "" THEN Abort(c, validate(h[1]))
                 ELSE /\ pc' = [pc EXCEPT ![c] = "AwaitContent1"]
                      /\ UNCHANGED err
  /\ UNCHANGED << mainVars, peerVars, content_1_buffer, content_2_buffer, calls,
                  result, out, bornAfter, codecVars >>

\* variant of ReadContent1: block 1 is decoded as soon as it is read
ReadContent1_eager(c) ==
  /\ pc[c] = "AwaitContent1"
  /\ LET n == as_usize(header[c][1].content_length_1) IN
     \E o \in read_exact(stream_of(c), n) :
       IF o = "err"
         THEN /\ nread' = [nread EXCEPT ![c] = @ + Taken(c, n)]
              /\ Abort(c, "io error")
              /\ UNCHANGED content_1_buffer
         ELSE LET b1 == Next_bytes(stream_of(c), n.low.lo) IN
              /\ content_1_buffer' = [content_1_buffer EXCEPT ![c] = b1]
              /\ nread' = [nread EXCEPT ![c] = @ + n.low.lo]
              /\ IF from_utf8(b1) = << >>
                   THEN Abort(c, "Failed to parse json content")
                   ELSE /\ pc' = [pc EXCEPT ![c] = "AwaitContent2"]
                        /\ UNCHANGED err
  /\ UNCHANGED << mainVars, peerVars, header, content_2_buffer, calls, result,
                  out, bornAfter, codecVars >>

\* vec![0; content_length_1] and stream.read_exact (main.rs:178-179)
ReadContent1(c) ==
  /\ pc[c] = "AwaitContent1"
  /\ LET n == as_usize(header[c][1].content_length_1) IN
     \E o \in read_exact(stream_of(c), n) :
       IF o = "err"
         THEN /\ nread' = [nread EXCEPT ![c] = @ + Taken(c, n)]
              /\ Abort(c, "io error")
              /\ UNCHANGED content_1_buffer
         ELSE /\ content_1_buffer' =
                   [content_1_buffer EXCEPT ![c] = Next_bytes(stream_of(c), n.low.lo)]
              /\ nread' = [nread EXCEPT ![c] = @ + n.low.lo]
              /\ pc' = [pc EXCEPT ![c] = "AwaitContent2"]
              /\ UNCHANGED err
  /\ UNCHANGED << mainVars, peerVars, header, content_2_buffer, calls, result,
                  out, bornAfter, codecVars >>

\* vec![0; content_length_2], stream.read_exact and the two String::from_utf8
\* (main.rs:181-188)
ReadContent2(c) ==
  /\ pc[c] = "AwaitContent2"
  /\ LET n == as_usize(header[c][1].content_length_2) IN
     \E o \in read_exact(stream_of(c), n) :
       IF o = "err"
         THEN /\ nread' = [nread EXCEPT ![c] = @ + Taken(c, n)]
              /\ Abort(c, "io error")
              /\ UNCHANGED content_2_buffer
         ELSE LET b2 == Next_bytes(stream_of(c), n.low.lo) IN
              /\ content_2_buffer' = [content_2_buffer EXCEPT ![c] = b2]
              /\ nread' = [nread EXCEPT ![c] = @ + n.low.lo]
              /\ IF decode(content_1_buffer[c], b2) # ""
                   THEN Abort(c, decode(content_1_buffer[c], b2))
                   ELSE /\ pc' = [pc EXCEPT ![c] = "Dispatch"]
                        /\ UNCHANGED err
  /\ UNCHANGED << mainVars, peerVars, header, content_1_buffer, calls, result,
                  out, bornAfter, codecVars >>

\* parse_template(&json_content, &text_content, header.content_format_2)
\* (main.rs:190); a panic inside it ends the task, the stream is dropped
Dispatch(c) ==
  /\ pc[c] = "Dispatch"
  /\ LET schema == content_1_buffer[c]  \* json_content: the bytes of the buffer
         tpl == content_2_buffer[c]     \* text_content
         tpl_type == header[c][1].content_format_2
         r == parse_template(schema, tpl, tpl_type)
     IN  /\ calls' = [calls EXCEPT ![c] =
                        Append(@, [schema |-> schema, tpl |-> tpl, tpl_type |-> tpl_type])]
         /\ result' = [result EXCEPT ![c] = r]
         /\ IF r = << >>
              THEN /\ pc' = [pc EXCEPT ![c] = "Panicked"]
                   /\ err' = [err EXCEPT ![c] = "panic"]
              ELSE /\ pc' = [pc EXCEPT ![c] = "WriteHeader"]
                   /\ UNCHANGED err
  /\ UNCHANGED << mainVars, peerVars, nread, header, content_1_buffer,
                  content_2_buffer, out, bornAfter, codecVars >>

\* stream.write_all(buf): all of buf is written, or, the client gone, a
\* part of it and the write fails.  An empty buf is written without a write.
write_all(c, buf, next) ==
  \/ /\ out' = [out EXCEPT ![stream_of(c)] = @ \o buf]
     /\ pc' = [pc EXCEPT ![c] = next]
     /\ UNCHANGED err
  \/ /\ peer[stream_of(c)] = "reset"
     /\ buf # << >>
     /\ \E k \in 0..(Len(buf) - 1) :
          out' = [out EXCEPT ![stream_of(c)] = @ \o Take(buf, k)]
     /\ Abort(c, "io error")

\* stream.write_all(&response_header.to_bytes()) (main.rs:191-200)
WriteHeader(c) ==
  /\ pc[c] = "WriteHeader"
  /\ write_all(c, response_parts(result[c][1])[1], "WriteJson")
  /\ UNCHANGED << mainVars, peerVars, nread, header, content_1_buffer,
                  content_2_buffer, calls, result, bornAfter, codecVars >>

\* stream.write_all(result.json.as_bytes()) (main.rs:201)
WriteJson(c) ==
  /\ pc[c] = "WriteJson"
  /\ write_all(c, response_parts(result[c][1])[2], "WriteText")
  /\ UNCHANGED << mainVars, peerVars, nread, header, content_1_buffer,
                  content_2_buffer, calls, result, bornAfter, codecVars >>

\* stream.write_all(result.text.as_bytes()), then Ok(()) (main.rs:202-212)
WriteText(c) ==
  /\ pc[c] = "WriteText"
  /\ write_all(c, response_parts(result[c][1])[3], after_response(c))
  /\ UNCHANGED << mainVars, peerVars, nread, header, content_1_buffer,
                  content_2_buffer, calls, result, bornAfter, codecVars >>

\* ---------------------------------------------------------- specifications
Task(c) ==
  \/ ReadHeader(c)
  \/ ReadContent1(c)
  \/ ReadContent2(c)
  \/ Dispatch(c)
  \/ WriteHeader(c)
  \/ WriteJson(c)
  \/ WriteText(c)

\* one client connects and sends any request of RichRequests, in segments;
\* it may stop, half-close or reset at any point
Next ==
  \/ Accept(RichRequests, 1)
  \/ AcceptFail
  \/ \E c \in Conns :
       \/ PeerSend(c, SegmentEnds(req[c]))
       \/ PeerShutdown(c)
       \/ PeerReset(c)
       \/ Task(c)

Spec == Init /\ [][Next]_vars

\* MaxConn clients connect, each sending a request of ConcRequests as one
\* segment, and stay connected
NextConc ==
  \/ Accept(ConcRequests, MaxConn)
  \/ AcceptFail
  \/ \E c \in Conns :
       \/ PeerSend(c, WholeRequest(req[c]))
       \/ Task(c)

SpecConc == Init /\ [][NextConc]_vars

\* requests for the scenario under fairness: answered with an empty block 2,
\* answered with two blocks, unsupported control, wrong format tag, invalid
\* UTF-8, and a schema the rendering panics on
LiveRequests ==
  { Framed(0, CTRL_PARSE_TEMPLATE, CONTENT_JSON, CONTENT_TEXT,
           << 123, 125 >>, << >>, << >>),
    Framed(0, CTRL_PARSE_TEMPLATE, CONTENT_JSON, CONTENT_PATH,
           << 123, 125 >>, << 97 >>, << >>),
    Framed(0, 99, CONTENT_JSON, CONTENT_TEXT, << 123, 125 >>, << >>, << >>),
    Framed(0, CTRL_PARSE_TEMPLATE, CONTENT_JSON, 40, << >>, << 97 >>, << >>),
    Framed(0, CTRL_PARSE_TEMPLATE, CONTENT_JSON, CONTENT_TEXT,
           << 255 >>, << >>, << >>),
    Framed(0, CTRL_PARSE_TEMPLATE, CONTENT_JSON, CONTENT_TEXT,
           << >>, << 97 >>, << >>) }

\* one client connects and sends a request of LiveRequests, in segments; it
\* may stop, half-close or reset at any point
NextLive ==
  \/ Accept(LiveRequests, 1)
  \/ \E c \in Conns :
       \/ PeerSend(c, SegmentEnds(req[c]))
       \/ PeerShutdown(c)
       \/ PeerReset(c)
       \/ Task(c)

\* that scenario under a fair scheduler: a task that can take its next step
\* (its read is complete or has failed, or it is past its reads) is polled
\* by the runtime and takes it.  No fairness for the client.
SpecLive == Init /\ [][NextLive]_vars /\ \A c \in Conns : WF_vars(Task(c))

\* requests that end a handler in each way: answered, unsupported control,
\* invalid UTF-8 in block 2, and a schema the rendering panics on
FailRequests ==
  { Framed(0, CTRL_PARSE_TEMPLATE, CONTENT_JSON, CONTENT_TEXT,
           << 123, 125 >>, << 97 >>, << >>),
    Framed(0, 99, CONTENT_JSON, CONTENT_TEXT, << >>, << >>, << >>),
    Framed(0, CTRL_PARSE_TEMPLATE, CONTENT_JSON, CONTENT_TEXT,
           << 123, 125 >>, << 255 >>, << >>),
    Framed(0, CTRL_PARSE_TEMPLATE, CONTENT_JSON, CONTENT_TEXT,
           << 97 >>, << 97 >>, << >>) }

\* the client closes its side before it has sent anything
PeerHangUp(c) ==
  /\ sent[c] = 0
  /\ PeerShutdown(c)

\* MaxConn clients connect, each with a request of FailRequests sent as one
\* segment, or hanging up at once; accepts may fail
NextFail ==
  \/ Accept(FailRequests, MaxConn)
  \/ AcceptFail
  \/ \E c \in Conns :
       \/ PeerSend(c, WholeRequest(req[c]))
       \/ PeerHangUp(c)
       \/ Task(c)

SpecFail == Init /\ [][NextFail]_vars

\* two requests that are answered
BlockRequests ==
  { Framed(0, CTRL_PARSE_TEMPLATE, CONTENT_JSON, CONTENT_TEXT,
           << 123, 125 >>, << 97 >>, << >>),
    Framed(0, CTRL_PARSE_TEMPLATE, CONTENT_JSON, CONTENT_PATH,
           << 123, 125 >>, << 97 >>, << >>) }

\* the header as one segment, the content as another
HeaderThenContent(q) == { HEADER_SIZE, Len(Wire(q)) }

\* MaxConn clients connect, each sending a request of BlockRequests: the
\* header, then the content, and each may stop for good before either
NextBlock ==
  \/ Accept(BlockRequests, MaxConn)
  \/ \E c \in Conns :
       \/ PeerSend(c, HeaderThenContent(req[c]))
       \/ Task(c)

SpecBlock == Init /\ [][NextBlock]_vars

\* requests that differ in the reserved byte, for each way a handler ends
PairRequests ==
  { Framed(r, q[1], CONTENT_JSON, q[2], q[3], q[4], << >>) :
      r \in { 0, 1, 255 },
      q \in { << CTRL_PARSE_TEMPLATE, CONTENT_TEXT, << 123, 125 >>, << 97 >> >>,
              << CTRL_PARSE_TEMPLATE, CONTENT_PATH, << 123, 125 >>, << 97 >> >>,
              << 99, CONTENT_TEXT, << 123, 125 >>, << 97 >> >>,
              << CTRL_PARSE_TEMPLATE, 40, << 123, 125 >>, << 97 >> >>,
              << CTRL_PARSE_TEMPLATE, CONTENT_TEXT, << 123, 125 >>, << 255 >> >>,
              << CTRL_PARSE_TEMPLATE, CONTENT_TEXT, << 97 >>, << 97 >> >> } }

\* two clients connect, each sending a request of PairRequests as one
\* segment, and stay connected
NextPair ==
  \/ Accept(PairRequests, 2)
  \/ \E c \in Conns :
       \/ PeerSend(c, WholeRequest(req[c]))
       \/ Task(c)

SpecPair == Init /\ [][NextPair]_vars

\* ------------------------------------------------- the codec on its own
\* buffers given to Header::from_bytes: every buffer of up to
\* HEADER_SIZE + MaxTail bytes over 0x00 and 0xFF, and buffers of distinct
\* bytes
Ramp(k, n) == [i \in 1..n |-> (k + 17 * i) % 256]
Buffers ==
  UNION { [1..n -> {0, 255}] : n \in 0..(HEADER_SIZE + MaxTail) }
    \cup { Ramp(k, n) : k \in {0, 100, 200},
                        n \in (HEADER_SIZE - 1)..(HEADER_SIZE + MaxTail) }

\* headers given to Header::to_bytes
Halves == { 0, 1, 258, 65535 }
Headers ==
  { Header(r, c, f1, [hi |-> a, lo |-> b], f2, [hi |-> d, lo |-> e]) :
      r \in {0, 255}, c \in {0, 10, 255}, f1 \in {10, 255}, f2 \in {0, 30, 255},
      a \in Halves, b \in Halves, d \in Halves, e \in Halves }

\* a buffer to decode and encode again, or a header to encode and decode again
InitCodec ==
  /\ ServerInit
  /\ \/ \E b \in Buffers :
          /\ codec_pc = "bytes"
          /\ given_bytes = b
          /\ codec_bytes = b
          /\ given_header = << >>
          /\ codec_header = << >>
     \/ \E h \in Headers :
          /\ codec_pc = "header"
          /\ given_header = << h >>
          /\ codec_header = << h >>
          /\ given_bytes = << >>
          /\ codec_bytes = << >>

\* Header::from_bytes(&codec_bytes)
CallFromBytes ==
  /\ codec_pc \in { "bytes", "encoded" }
  /\ codec_header' = from_bytes(codec_bytes)
  /\ codec_pc' = IF codec_pc = "bytes" THEN "decoded" ELSE "redecoded"
  /\ UNCHANGED << mainVars, peerVars, taskVars, bornAfter, codec_bytes,
                  given_bytes, given_header >>

\* header.to_bytes()
CallToBytes ==
  /\ codec_pc \in { "header", "decoded" }
  /\ codec_header # << >>
  /\ codec_bytes' = to_bytes(codec_header[1])
  /\ codec_pc' = IF codec_pc = "header" THEN "encoded" ELSE "reencoded"
  /\ UNCHANGED << mainVars, peerVars, taskVars, bornAfter, codec_header,
                  given_bytes, given_header >>

NextCodec ==
  \/ CallFromBytes
  \/ CallToBytes

SpecCodec == InitCodec /\ [][NextCodec]_vars

\* ----------------------------------------------------------------- claims
\* the request header as the client framed it
Sent_header(c) == req[c].header

\* the format tags parse-template accepts
TagsAccepted(h) ==
  /\ h.content_format_1 = CONTENT_JSON
  /\ h.content_format_2 \in {CONTENT_PATH, CONTENT_TEXT}

\* the header and all declared content bytes of connection c were taken by
\* the handler
FullyRead(c) ==
  LET h == Sent_header(c) IN
  /\ h.content_length_1.hi = 0
  /\ h.content_length_2.hi = 0
  /\ nread[c] = HEADER_SIZE + h.content_length_1.lo + h.content_length_2.lo

\* the client has not delivered the header and all declared content bytes
ShortOf(c) ==
  LET h == Sent_header(c) IN
  \/ sent[c] < HEADER_SIZE
  \/ h.content_length_1.hi > 0
  \/ h.content_length_2.hi > 0
  \/ sent[c] < HEADER_SIZE + h.content_length_1.lo + h.content_length_2.lo

\* the complete response for a ParseTemplateResult r: header, JSON body, text
Response(r) ==
  << 0, r.status, CONTENT_JSON >> \o u32_to_be_bytes(as_u32(len(r.json)))
    \o << CONTENT_TEXT >> \o u32_to_be_bytes(as_u32(len(r.text)))
    \o r.json \o r.text

\* C1: every request with control = 10, content_format_1 = 10,
\* content_format_2 in {20, 30}, whose two blocks arrive in full and are
\* valid UTF-8, ends with a complete response (control = 0, JSON body, text)
\* written, whatever the rendering outcome; none ends with the connection
\* closed and no response.  (Connections the client reset are left out.)
C1_RenderingFailureDelivered ==
  \A c \in Conns :
    ( /\ Terminated(c)
      /\ peer[c] # "reset"
      /\ Sent_header(c).control = CTRL_PARSE_TEMPLATE
      /\ TagsAccepted(Sent_header(c))
      /\ FullyRead(c)
      /\ utf8_valid(req[c].block1)
      /\ utf8_valid(req[c].block2) )
    => /\ pc[c] = "Closed"
       /\ Len(out[c]) >= HEADER_SIZE + 1
       /\ out[c][2] = CTRL_STATUS_OK

\* C2: a request whose control byte is not 10 gets no byte written back and
\* no rendering call, and once its header is read the handler has aborted
\* with "Unsupported control code", whatever the other fields and the bytes
\* that follow are.
C2_UnsupportedControl ==
  \A c \in Conns :
    (pc[c] # "Idle" /\ Sent_header(c).control # CTRL_PARSE_TEMPLATE)
    => /\ out[c] = << >>
       /\ calls[c] = << >>
       /\ pc[c] \in {"AwaitHeader", "Aborted"}
       /\ (header[c] # << >> =>
             pc[c] = "Aborted" /\ err[c] = "Unsupported control code")

\* C2 witness: a header with control 99, accepted format tags and content
\* behind it was read and the handler aborted on the control byte.
C2_Witness ==
  \E c \in Conns :
    /\ Sent_header(c).control = 99
    /\ TagsAccepted(Sent_header(c))
    /\ req[c].block1 # << >>
    /\ sent[c] = Len(Wire(req[c]))
    /\ header[c] # << >>
    /\ pc[c] = "Aborted"
    /\ err[c] = "Unsupported control code"

FormatErrors ==
  { "Invalid content_format_1. Expected JSON.",
    "Invalid content_format_2. Expected TEXT or PATH." }

\* C3: with control = 10, a header whose content_format_1 is not 10 or whose
\* content_format_2 is neither 30 nor 20 is rejected once read (abort with a
\* format error, nothing written, no rendering call); a header with
\* content_format_1 = 10 and content_format_2 in {20, 30} is never rejected
\* for its format tags: once read, the handler goes on to the content.
C3_WrongContentFormat ==
  \A c \in Conns :
    (pc[c] # "Idle" /\ Sent_header(c).control = CTRL_PARSE_TEMPLATE)
    => IF TagsAccepted(Sent_header(c))
         THEN /\ err[c] \notin FormatErrors
              /\ (header[c] # << >> /\ nread[c] = HEADER_SIZE /\ pc[c] = "Aborted"
                    => err[c] = "io error")
         ELSE /\ out[c] = << >>
              /\ calls[c] = << >>
              /\ pc[c] \in {"AwaitHeader", "Aborted"}
              /\ (header[c] # << >> =>
                    pc[c] = "Aborted" /\ err[c] \in FormatErrors)

\* C3 witness: a request tagged plaintext in block 1 was rejected, and so was
\* one tagged binary in block 2 -- here the first of the two.
C3_Witness ==
  \E c \in Conns :
    /\ Sent_header(c).control = CTRL_PARSE_TEMPLATE
    /\ Sent_header(c).content_format_1 = CONTENT_TEXT
    /\ Sent_header(c).content_format_2 = CONTENT_TEXT
    /\ sent[c] = Len(Wire(req[c]))
    /\ pc[c] = "Aborted"
    /\ err[c] = "Invalid content_format_1. Expected JSON."
    /\ out[c] = << >>

Utf8Errors == { "Failed to parse json content", "Failed to parse text content" }

\* the response the server owes to request q, when rendering returns
Owed(q) ==
  Response(parse_template(q.block1, q.block2, q.header.content_format_2)[1])

\* C4: a request that is valid but for a content block that is not UTF-8
\* gets no response byte and causes no rendering call, and its handler ends
\* with a UTF-8 error; meanwhile the listener keeps accepting (an accept is
\* enabled as long as a client is left to connect) and every connection that
\* is closed normally has received the response owed to its own request.
C4_InvalidUtf8 ==
  /\ listening
  /\ (accepted < MaxConn => ENABLED Accept(ConcRequests, MaxConn))
  /\ \A c \in Conns :
       ( /\ pc[c] # "Idle"
         /\ Sent_header(c).control = CTRL_PARSE_TEMPLATE
         /\ TagsAccepted(Sent_header(c))
         /\ ~(utf8_valid(req[c].block1) /\ utf8_valid(req[c].block2)) )
       => /\ out[c] = << >>
          /\ calls[c] = << >>
          /\ pc[c] \in {"AwaitHeader", "AwaitContent1", "AwaitContent2", "Aborted"}
          /\ (Terminated(c) => err[c] \in Utf8Errors)
  /\ \A d \in Conns : pc[d] = "Closed" => out[d] = Owed(req[d])

\* C4 witness: a connection was aborted on a block that is not UTF-8, and a
\* connection accepted after that abort was served its full response.
C4_Witness ==
  \E c, d \in Conns :
    /\ c # d
    /\ pc[c] = "Aborted"
    /\ err[c] = "Failed to parse text content"
    /\ out[c] = << >>
    /\ c \in bornAfter[d]
    /\ pc[d] = "Closed"
    /\ out[d] = Owed(req[d])
    /\ Len(out[d]) > HEADER_SIZE

\* the number of bytes the read the handler of c stands at asks for
Awaited(c) ==
  CASE pc[c] = "AwaitContent1" -> as_usize(header[c][1].content_length_1)
    [] pc[c] = "AwaitContent2" -> as_usize(header[c][1].content_length_2)
    [] OTHER -> as_usize(U32(HEADER_SIZE))

\* C5: as long as the client has not delivered the 12 header bytes and all
\* declared content bytes, the rendering facade is not invoked and no
\* response byte is written, and the handler is reading or has aborted; a
\* well-tagged request cut short ends with an I/O error; once the client has
\* closed, the handler is not left waiting (its read returns).
C5_ShortDelivery ==
  \A c \in Conns :
    (pc[c] # "Idle" /\ ShortOf(c))
    => /\ calls[c] = << >>
       /\ out[c] = << >>
       /\ pc[c] \in {"AwaitHeader", "AwaitContent1", "AwaitContent2", "Aborted"}
       /\ ( /\ Terminated(c)
            /\ Sent_header(c).control = CTRL_PARSE_TEMPLATE
            /\ TagsAccepted(Sent_header(c)) ) => err[c] = "io error"
       /\ (peer[c] # "open" /\ ~Terminated(c) => read_exact(c, Awaited(c)) # {})

\* C5 witness: the client delivered the header, block 1 and a part of block
\* 2, then closed; the handler read block 1 and aborted on the read of
\* block 2.
C5_Witness ==
  \E c \in Conns :
    /\ peer[c] = "shut"
    /\ ShortOf(c)
    /\ sent[c] > HEADER_SIZE + Sent_header(c).content_length_1.lo
    /\ content_1_buffer[c] = req[c].block1
    /\ req[c].block1 # << >>
    /\ pc[c] = "Aborted"
    /\ err[c] = "io error"
    /\ calls[c] = << >>
    /\ out[c] = << >>

\* the order of the handler's states
Rank(p) ==
  CASE p = "Idle" -> 0
    [] p = "AwaitHeader" -> 1
    [] p = "AwaitContent1" -> 2
    [] p = "AwaitContent2" -> 3
    [] p = "Dispatch" -> 4
    [] p = "WriteHeader" -> 5
    [] p = "WriteJson" -> 6
    [] p = "WriteText" -> 7
    [] OTHER -> 8

\* the handler of c has taken no byte beyond the request the header declares
ReadWithinRequest(c) ==
  LET h == Sent_header(c) IN
  \/ h.content_length_1.hi > 0
  \/ h.content_length_2.hi > 0
  \/ nread[c] <= HEADER_SIZE + h.content_length_1.lo + h.content_length_2.lo

\* C6: on every connection the rendering facade is invoked at most once, at
\* most one response is written, no byte beyond 12 + content_length_1 +
\* content_length_2 is read; the handler never goes back (in particular not
\* to AwaitHeader), the header once decoded is never replaced, and nothing
\* is read once the content is read or the handler is over.
C6_OneRequestOneResponse ==
  /\ [](\A c \in Conns :
          /\ Len(calls[c]) <= 1
          /\ ReadWithinRequest(c)
          /\ (result[c] = << >> => out[c] = << >>)
          /\ (result[c] # << >> => Len(out[c]) <= Len(Response(result[c][1]))))
  /\ [][\A c \in Conns :
          /\ Rank(pc'[c]) >= Rank(pc[c])
          /\ (pc[c] \notin {"Idle", "AwaitHeader"} => pc'[c] # "AwaitHeader")
          /\ (header[c] # << >> => header'[c] = header[c])
          /\ (Rank(pc[c]) >= 4 => nread'[c] = nread[c])
          /\ (Terminated(c) => pc'[c] = pc[c] /\ out'[c] = out[c]
                                 /\ calls'[c] = calls[c])]_vars

\* C6 witness: the client sent a byte beyond its request; the handler served
\* the request, closed, and left that byte unread.
C6_Witness ==
  \E c \in Conns :
    /\ req[c].extra # << >>
    /\ req[c].block1 # << >>
    /\ sent[c] = Len(Wire(req[c]))
    /\ pc[c] = "Closed"
    /\ nread[c] = sent[c] - Len(req[c].extra)
    /\ Len(calls[c]) = 1
    /\ out[c] = Owed(req[c])

\* C7: the bytes written on a connection are at every moment a prefix of
\* header ++ json_body ++ rendered_text; the header is written first, then
\* the JSON body, then the text; the handler closes with the response
\* complete unless a write failed.
C7_WriteOrder ==
  \A c \in Conns :
    /\ (result[c] = << >> => out[c] = << >>)
    /\ result[c] # << >> =>
         LET r == result[c][1] IN
         /\ IsPrefix(out[c], Response(r))
         /\ (pc[c] = "WriteHeader" => out[c] = << >>)
         /\ (pc[c] = "WriteJson" => out[c] = Take(Response(r), HEADER_SIZE))
         /\ (pc[c] = "WriteText" =>
               out[c] = Take(Response(r), HEADER_SIZE + Len(r.json)))
         /\ (pc[c] = "Closed" => out[c] = Response(r))
         /\ (Terminated(c) /\ out[c] # Response(r) =>
               pc[c] = "Aborted" /\ err[c] = "io error" /\ peer[c] = "reset")

\* C7 witness: a response whose JSON body and text differ was written in
\* full and the connection closed.
C7_Witness ==
  \E c \in Conns :
    /\ pc[c] = "Closed"
    /\ result[c] # << >>
    /\ result[c][1].text # << >>
    /\ result[c][1].text # result[c][1].json
    /\ out[c] = Response(result[c][1])

\* C8: in every response written in full, the header's content_length_1 is
\* the byte length of the JSON body written and content_length_2 the byte
\* length of the rendered text written, whatever their sizes.
C8_DeclaredLengths ==
  \A c \in Conns :
    pc[c] = "Closed" =>
      LET h == from_bytes(Take(out[c], HEADER_SIZE))[1]
          r == result[c][1]
      IN  /\ Drop(out[c], HEADER_SIZE) = r.json \o r.text
          /\ as_usize(h.content_length_1) = len(r.json)
          /\ as_usize(h.content_length_2) = len(r.text)

\* C9: every response header byte written has its fixed value: reserved = 0,
\* control = 0, content_format_1 = 10, content_format_2 = 30, whatever the
\* rendering facade reports.
C9_FixedResponseFields ==
  \A c \in Conns :
    /\ (Len(out[c]) >= 1 => out[c][1] = 0)
    /\ (Len(out[c]) >= 2 => out[c][2] = 0)
    /\ (Len(out[c]) >= 3 => out[c][3] = 10)
    /\ (Len(out[c]) >= 8 => out[c][8] = 30)
    /\ (Len(out[c]) >= HEADER_SIZE =>
          LET h == from_bytes(Take(out[c], HEADER_SIZE))[1] IN
          /\ h.reserved = 0
          /\ h.control = 0
          /\ h.content_format_1 = 10
          /\ h.content_format_2 = 30)

\* C9 witness: rendering reported an error and the response was written in
\* full, with control = 0.
C9_Witness ==
  \E c \in Conns :
    /\ pc[c] = "Closed"
    /\ has_error(req[c].block2)
    /\ result[c][1].json = << 123, 49, 125 >>
    /\ Len(out[c]) >= HEADER_SIZE
    /\ out[c][2] = 0

\* a request the server answers: control 10, accepted tags, UTF-8 blocks,
\* and a rendering that returns
Answered(q) ==
  /\ q.header.control = CTRL_PARSE_TEMPLATE
  /\ TagsAccepted(q.header)
  /\ utf8_valid(q.block1)
  /\ utf8_valid(q.block2)
  /\ parse_template(q.block1, q.block2, q.header.content_format_2) # << >>

\* C10: with several connections open at once, under every interleaving,
\* what a handler has read are bytes of its own request, the rendering call
\* it makes has its own blocks as arguments, what is written on its socket
\* is a prefix of the response owed to its own request, and it closes with
\* exactly that response; a connection not yet open or not answered has
\* nothing written on it.
C10_ConcurrentIndependence ==
  \A c \in Conns :
    /\ content_1_buffer[c] \in { << >>, req[c].block1 }
    /\ content_2_buffer[c] \in { << >>, req[c].block2 }
    /\ (header[c] # << >> => header[c][1] = Sent_header(c))
    /\ (calls[c] # << >> =>
          calls[c] = << [schema |-> req[c].block1, tpl |-> req[c].block2,
                         tpl_type |-> Sent_header(c).content_format_2] >>)
    /\ IF pc[c] # "Idle" /\ Answered(req[c])
         THEN /\ IsPrefix(out[c], Owed(req[c]))
              /\ (Terminated(c) => pc[c] = "Closed" /\ out[c] = Owed(req[c]))
         ELSE out[c] = << >>

\* C10 witness: two connections open at the same time, with different
\* requests, each closed with its own response.
C10_Witness ==
  \E c, d \in Conns :
    /\ c < d
    /\ c \notin bornAfter[d]
    /\ req[c] # req[d]
    /\ pc[c] = "Closed"
    /\ pc[d] = "Closed"
    /\ out[c] = Owed(req[c])
    /\ out[d] = Owed(req[d])
    /\ out[c] # out[d]

\* what the handler of connection c holds
TaskState(c) ==
  << pc[c], nread[c], header[c], content_1_buffer[c], content_2_buffer[c],
     calls[c], result[c], out[c], err[c] >>

\* the handler of connection c ends in failure in this step
Fails(c) == pc[c] \notin Over /\ pc'[c] \in { "Aborted", "Panicked" }

Blocked(c) ==
  /\ pc[c] \in { "AwaitHeader", "AwaitContent1", "AwaitContent2" }
  /\ peer[c] = "open"
  /\ ~ HasBytes(stream_of(c), Awaited(c))

\* C12: the accept loop does not wait for handlers. While fewer than MaxConn
\* connections were accepted the next accept is enabled, however many
\* handlers are blocked on a read; a handler that has its bytes, or is past
\* its reads, can take its next step whatever the other handlers do; and
\* the step that accepts a connection changes no handler already running.
C12_SpawnNeverBlocksAccept ==
  /\ [](/\ (accepted < MaxConn => ENABLED Accept(BlockRequests, MaxConn))
        /\ \A c \in Conns :
             Live(c) /\ ~ Blocked(c) => ENABLED Task(c))
  /\ [][accepted' # accepted =>
          \A c \in 1..accepted : TaskState(c)' = TaskState(c)]_vars

\* C12 witness: a handler is blocked on content bytes of its request, and a
\* connection accepted after it, while it was running, is closed with its
\* full response.
C12_Witness ==
  \E c, d \in Conns :
    /\ c < d
    /\ Blocked(c)
    /\ pc[c] = "AwaitContent1"
    /\ pc[d] = "Closed"
    /\ out[d] = Owed(req[d])

\* C13: there is no read timeout. A handler that has read a valid header and
\* waits for content bytes its peer has not sent, on a connection the peer
\* keeps open, is left exactly as it is by every step in which that peer
\* neither sends nor closes: it stays in the same content read, nothing is
\* written and the connection is not closed.
C13_NoReadTimeout ==
  [][\A c \in Conns :
       /\ pc[c] \in { "AwaitContent1", "AwaitContent2" }
       /\ Blocked(c)
       /\ sent'[c] = sent[c]
       /\ peer'[c] = peer[c]
       => TaskState(c)' = TaskState(c)]_vars

\* C13 witness: a valid header and block 1 were read, the peer holds back
\* bytes of block 2 and keeps the connection open.
C13_Witness ==
  \E c \in Conns :
    /\ pc[c] = "AwaitContent2"
    /\ Blocked(c)
    /\ header[c] # << >>
    /\ validate(header[c][1]) = ""
    /\ nread[c] > HEADER_SIZE
    /\ sent[c] > nread[c]

\* the u32 whose big-endian bytes are b[i], b[i+1], b[i+2], b[i+3]
BigEndianAt(b, i) ==
  [hi |-> b[i] * 256 + b[i + 1], lo |-> b[i + 2] * 256 + b[i + 3]]

\* header h laid out in the first 12 bytes of b: reserved, control and
\* content_format_1 at offsets 0, 1, 2, content_length_1 big-endian at
\* offsets 3..6, content_format_2 at offset 7, content_length_2 big-endian
\* at offsets 8..11
LaidOut(h, b) ==
  /\ Len(b) >= 12
  /\ h.reserved = b[1]
  /\ h.control = b[2]
  /\ h.content_format_1 = b[3]
  /\ h.content_length_1 = BigEndianAt(b, 4)
  /\ h.content_format_2 = b[8]
  /\ h.content_length_2 = BigEndianAt(b, 9)

\* C14: the codec round-trips. A header encoded and decoded again is the
\* header given; a buffer of 12 bytes (or more) decoded and encoded again
\* gives back its first 12 bytes; the encoding is 12 bytes long with the
\* two lengths big-endian at offsets 3..6 and 8..11.
C14_CodecRoundTrip ==
  /\ (codec_pc = "encoded" =>
        /\ Len(codec_bytes) = 12
        /\ LaidOut(given_header[1], codec_bytes))
  /\ (codec_pc = "redecoded" => codec_header = given_header)
  /\ (codec_pc = "reencoded" => codec_bytes = Take(given_bytes, 12))

\* C14 witness: a header whose lengths have four different bytes came back
\* from encoding and decoding.
C14_Witness ==
  /\ codec_pc = "redecoded"
  /\ codec_header = given_header
  /\ given_header[1].content_length_1 = [hi |-> 1, lo |-> 258]
  /\ given_header[1].content_length_2 = [hi |-> 258, lo |-> 65535]
  /\ codec_bytes[4] = 0
  /\ codec_bytes[7] = 2

\* C15: decoding a buffer shorter than 12 bytes gives None; decoding a
\* buffer of 12 bytes or more gives Some header, whatever the bytes, and
\* that header is made of the first 12 bytes alone.
C15_DecodeTotality ==
  codec_pc = "decoded" =>
    IF Len(given_bytes) < 12
      THEN codec_header = << >>
      ELSE /\ Len(codec_header) = 1
           /\ LaidOut(codec_header[1], Take(given_bytes, 12))

\* C15 witness: a buffer of 11 bytes was refused.
C15_Witness ==
  /\ codec_pc = "decoded"
  /\ Len(given_bytes) = 11
  /\ codec_header = << >>

\* the client has sent the header and, when the header passes validation,
\* every content byte it declares
Delivered(c) ==
  /\ sent[c] >= HEADER_SIZE
  /\ (validate(Sent_header(c)) = "" => ~ ShortOf(c))

\* C16: under fair scheduling of the handler, a connection whose client has
\* delivered the header and, for a valid header, all declared content bytes
\* (a content_length_2 of 0 asks for none) is eventually closed by the
\* server, by the end of the response or by an abort.
C16_EventuallyClosed ==
  \A c \in Conns : (Live(c) /\ Delivered(c)) ~> Terminated(c)

\* C16 witness: a request with an empty block 2, delivered in full by a
\* client that stays connected, was answered and closed.
C16_Witness ==
  \E c \in Conns :
    /\ Delivered(c)
    /\ validate(Sent_header(c)) = ""
    /\ Sent_header(c).content_length_2 = U32(0)
    /\ peer[c] = "open"
    /\ pc[c] = "Closed"
    /\ out[c] = Owed(req[c])

\* C17: whenever parse_template is called, it is called once, after both
\* blocks were read in full and found to be UTF-8, with block 1 as the
\* schema and block 2 as the template source; the source is loaded as a
\* file path exactly when content_format_2 is 20 and taken inline exactly
\* when it is 30, which shows in the text rendered.
C17_DispatchArguments ==
  \A c \in Conns :
    calls[c] # << >> =>
      LET h == Sent_header(c)
          call == calls[c][1]
      IN  /\ Len(calls[c]) = 1
          /\ FullyRead(c)
          /\ content_1_buffer[c] = req[c].block1
          /\ content_2_buffer[c] = req[c].block2
          /\ utf8_valid(req[c].block1)
          /\ utf8_valid(req[c].block2)
          /\ call.schema = req[c].block1
          /\ call.tpl = req[c].block2
          /\ h.content_format_2 \in { 20, 30 }
          /\ call.tpl_type = h.content_format_2
          /\ (result[c] # << >> /\ h.content_format_2 = 20 =>
                /\ read_to_string(req[c].block2) # << >>
                /\ result[c][1].text = render(read_to_string(req[c].block2)[1]))
          /\ (result[c] # << >> /\ h.content_format_2 = 30 =>
                result[c][1].text = render(req[c].block2))
          /\ (h.content_format_2 = 20 /\ read_to_string(req[c].block2) = << >>
                => result[c] = << >>)

\* C17 witness: a request with content_format_2 = 20 and the path "a" was
\* rendered from the file of that name, not from the text "a".
C17_Witness ==
  \E c \in Conns :
    /\ Sent_header(c).content_format_2 = 20
    /\ calls[c] = << [schema |-> << 123, 125 >>, tpl |-> << 97 >>,
                      tpl_type |-> 20] >>
    /\ result[c] # << >>
    /\ result[c][1].text = << 97, 97 >>

\* the handler of connection c ended on error e having taken the 12 header
\* bytes and nothing else from the socket
RejectedAtHeader(c, e) ==
  /\ pc[c] = "Aborted"
  /\ err[c] = e
  /\ nread[c] = 12
  /\ content_1_buffer[c] = << >>
  /\ content_2_buffer[c] = << >>

\* C18: validation comes before every content read, control first, then
\* content_format_1, then content_format_2. Once the header is read, a
\* control other than 10 ends the handler with the unsupported-control
\* error whatever the format tags are; with control 10 a content_format_1
\* other than 10 ends it with the format-1 error whatever content_format_2
\* is; then a content_format_2 outside {20, 30} ends it with the format-2
\* error; in each case exactly 12 bytes were taken from the socket. A
\* handler that has taken more than 12 bytes has a header that passes all
\* three checks.
C18_ValidationBeforeContent ==
  \A c \in Conns :
    LET h == Sent_header(c) IN
    /\ (header[c] # << >> /\ h.control # 10 =>
          RejectedAtHeader(c, "Unsupported control code"))
    /\ (header[c] # << >> /\ h.control = 10 /\ h.content_format_1 # 10 =>
          RejectedAtHeader(c, "Invalid content_format_1. Expected JSON."))
    /\ (header[c] # << >> /\ h.control = 10 /\ h.content_format_1 = 10
          /\ h.content_format_2 \notin { 20, 30 } =>
          RejectedAtHeader(c, "Invalid content_format_2. Expected TEXT or PATH."))
    /\ (nread[c] > 12 =>
          /\ h.control = 10
          /\ h.content_format_1 = 10
          /\ h.content_format_2 \in { 20, 30 })

\* C18 witness: a header with control 99 and both format tags wrong, whose
\* content was already on the socket, was rejected as an unsupported
\* control after 12 bytes.
C18_Witness ==
  \E c \in Conns :
    /\ Sent_header(c).control = 99
    /\ Sent_header(c).content_format_1 = 30
    /\ Sent_header(c).content_format_2 = 40
    /\ sent[c] > 12
    /\ RejectedAtHeader(c, "Unsupported control code")

\* requests p and q are the same but for the reserved byte of the header
SameButReserved(p, q) ==
  [p EXCEPT !.header.reserved = 0] = [q EXCEPT !.header.reserved = 0]

\* what the handler of connection c holds, the reserved byte of the header
\* it decoded left out
TaskStateButReserved(c) ==
  << pc[c], nread[c],
     IF header[c] = << >> THEN << >>
     ELSE << [header[c][1] EXCEPT !.reserved = 0] >>,
     content_1_buffer[c], content_2_buffer[c], calls[c], result[c], out[c],
     err[c] >>

\* C19: the reserved byte of a request decides nothing. Two handlers whose
\* requests differ only in that byte and were delivered alike stand, at the
\* same point of handle_client, in the same state (bytes read, rendering
\* call, result, bytes written, error), and once both are over they ended
\* the same way; a request that is answered is answered whatever its
\* reserved byte, and the first byte of every response is 0.
C19_ReservedIgnored ==
  /\ \A c, d \in Conns :
       SameButReserved(req[c], req[d]) =>
         /\ (pc[c] = pc[d] => TaskStateButReserved(c) = TaskStateButReserved(d))
         /\ (Terminated(c) /\ Terminated(d) => pc[c] = pc[d])
  /\ \A c \in Conns :
       /\ (Terminated(c) /\ Answered(req[c]) =>
             pc[c] = "Closed" /\ out[c] = Owed(req[c]))
       /\ (out[c] # << >> => out[c][1] = 0)

\* C19 witness: two requests, one with reserved 0 and one with reserved
\* 255 and the same otherwise, were both closed with the same response,
\* whose reserved byte is 0.
C19_Witness ==
  \E c, d \in Conns :
    /\ Sent_header(c).reserved = 0
    /\ Sent_header(d).reserved = 255
    /\ SameButReserved(req[c], req[d])
    /\ header[d] # << >>
    /\ header[d][1].reserved = 255
    /\ pc[c] = "Closed"
    /\ pc[d] = "Closed"
    /\ out[c] = out[d]
    /\ out[d][1] = 0

\* C20: no block is decoded before block 2 was read in full. A handler
\* that ended with a UTF-8 error has taken every declared byte of both
\* blocks; a handler that has read a block 1 that is not UTF-8, while
\* bytes of its request are still missing, has no UTF-8 error: it waits
\* for block 2 as long as the peer stays, and if it ends it is by an I/O
\* error; with both blocks invalid the error is the one of block 1.
C20_Utf8Deferred ==
  \A c \in Conns :
    /\ (err[c] \in Utf8Errors =>
          /\ pc[c] = "Aborted"
          /\ FullyRead(c)
          /\ content_1_buffer[c] = req[c].block1
          /\ content_2_buffer[c] = req[c].block2)
    /\ (~ utf8_valid(content_1_buffer[c]) /\ ShortOf(c) =>
          /\ err[c] \notin Utf8Errors
          /\ (peer[c] = "open" => pc[c] = "AwaitContent2")
          /\ (Terminated(c) => err[c] = "io error"))
    /\ (err[c] \in Utf8Errors /\ ~ utf8_valid(req[c].block1) =>
          err[c] = "Failed to parse json content")
    /\ (err[c] \in Utf8Errors /\ utf8_valid(req[c].block1) =>
          /\ err[c] = "Failed to parse text content"
          /\ ~ utf8_valid(req[c].block2))

\* C20 witness: both blocks are invalid UTF-8; the handler read block 1,
\* then block 2, and ended with the error of block 1.
C20_Witness ==
  \E c \in Conns :
    /\ req[c].block1 = << 255 >>
    /\ req[c].block2 = << 255 >>
    /\ content_1_buffer[c] = << 255 >>
    /\ content_2_buffer[c] = << 255 >>
    /\ nread[c] = 14
    /\ pc[c] = "Aborted"
    /\ err[c] = "Failed to parse json content"
====
